---- MODULE Spec2Model ----
(***************************************************************************)
(* Model of src/app.py: a FastAPI service (signup, login, add_task,        *)
(* get_tasks, complete_task, health) whose handlers are plain `def`s, so   *)
(* they run on worker threads, and which all talk to PostgreSQL through    *)
(* ONE module-level psycopg2 connection `conn` (line 26).  psycopg2        *)
(* serialises the statements of a connection, so a statement is one atomic *)
(* step; the transaction, however, belongs to the connection and is shared *)
(* by every request in flight.                                             *)
(***************************************************************************)
EXTENDS Integers, FiniteSets, Sequences, TLC

\* ---------------------------------------------------------------- bounds
MaxUserSeq == 2
MaxTaskSeq == 1
\* The task ids handed out on the task board (BoardSpec), where the claims
\* about several tasks are checked.
MaxBoardSeq == 2

\* ---------------------------------------------------------------- inputs
Threads == {"t1", "t2"}
None == "None"
Usernames == {"alice", "bob"}
Passwords == {"pw1", "pw2"}
Salts == {"s1"}
\* uuid.uuid4(): a value that no other call returns; n numbers the calls.
uuid4(n) == <<"uuid4", n>>
\* The workspace codes clients name: the first minted one and one of their own.
WorkspaceCodes == {uuid4(1), <<"home">>}
\* workspace_code: str = None (line 34)
NoCode == <<>>
Passcodes == {"A1B2C3"}
TaskNames == {"Clean kitchen"}
DueDates == {1, 2}
AssignerIds == {1}
AssigneeIds == {2}
TaskIds == 1 .. (MaxTaskSeq + 1)

\* The signup requests: a first user, the same username with another email,
\* the same email with another username, and a user who shares neither and
\* joins the workspace minted first.
SignupModel ==
    {[username |-> "alice", email |-> "a@x.org", password |-> "pw1",
      workspace_code |-> NoCode, role |-> "member"],
     [username |-> "alice", email |-> "b@x.org", password |-> "pw2",
      workspace_code |-> NoCode, role |-> "member"],
     [username |-> "bob", email |-> "a@x.org", password |-> "pw1",
      workspace_code |-> uuid4(1), role |-> "member"],
     [username |-> "bob", email |-> "b@x.org", password |-> "pw2",
      workspace_code |-> uuid4(1), role |-> "member"]}

LoginModel == [username : Usernames, password : Passwords]

TaskModel ==
    {k \in [workspace_code : WorkspaceCodes, task_name : TaskNames, assigned_by : AssignerIds,
            assigned_to : AssigneeIds, due_date : DueDates] :
        k.workspace_code = <<"home">> => k.due_date = 1}

\* ---------------------------------------------------------------- state
VARIABLES
    dbUsers,        \* committed rows of table users
    dbTasks,        \* committed rows of table tasks
    users,          \* table users as the connection's transaction sees it
    tasks,          \* table tasks as the connection's transaction sees it
    txn,            \* transaction status of conn: "idle", "open", "aborted"
    userSeq,        \* next value of the sequence behind users.id
    taskSeq,        \* next value of the sequence behind tasks.id
    pc,             \* pc[t]: where thread t stands in its handler
    req,            \* req[t]: the request thread t is serving
    loc,            \* loc[t]: the handler's local variables
    resp,           \* the response sent by the last step, if it sent one
    signedUp        \* history: the bodies of the successful signup responses

vars == <<dbUsers, dbTasks, users, tasks, txn, userSeq, taskSeq,
          pc, req, loc, resp, signedUp>>

NoReq == [op |-> None]
NoLoc == [user_id |-> 0]
NoResp == [thread |-> None, op |-> None, req |-> NoReq, status |-> 0,
           body |-> [detail |-> None]]

\* ------------------------------------------------------- credential store
\* bcrypt.hashpw(password, salt): the salt followed by the digest of
\* (salt, password).
hashpw(password, salt) == <<salt, <<"digest", salt, password>>>>

\* bcrypt.checkpw(password, hashed): hash the candidate with the salt stored
\* in `hashed` and compare.
checkpw(password, hashed) == hashpw(password, hashed[1]) = hashed

\* ------------------------------------------------------------ the storage
\* A table that declares only the email unique.
UniqueViolation_EmailOnly(table, row) ==
    \E x \in table : x.email = row.email

\* UNIQUE(username), UNIQUE(email) on table users: the INSERT of `row` is
\* rejected when a row of the table has its username or its email.
UniqueViolation(table, row) ==
    \E x \in table : x.username = row.username \/ x.email = row.email

\* conn.commit(): COMMIT of an open transaction makes its writes durable; on
\* an aborted transaction the server answers COMMIT with ROLLBACK and no
\* error is raised; with no transaction it is a no-op.
CommitDb(status, db, view) == IF status = "open" THEN view ELSE db

CommitView(status, db, view) == IF status = "aborted" THEN db ELSE view

Commit ==
    /\ txn' = "idle"
    /\ dbUsers' = CommitDb(txn, dbUsers, users)
    /\ dbTasks' = CommitDb(txn, dbTasks, tasks)
    /\ users' = CommitView(txn, dbUsers, users)
    /\ tasks' = CommitView(txn, dbTasks, tasks)

\* A response leaves the handler: the thread is free again.
Respond(t, op, r, status, body) ==
    /\ resp' = [thread |-> t, op |-> op, req |-> r, status |-> status,
                body |-> body]
    /\ pc' = [pc EXCEPT ![t] = "idle"]
    /\ req' = [req EXCEPT ![t] = NoReq]
    /\ loc' = [loc EXCEPT ![t] = NoLoc]

\* cursor.execute on an aborted transaction raises InFailedSqlTransaction;
\* no handler but health_check catches it, so the framework answers 500.
ServerError(t, op, r) ==
    Respond(t, op, r, 500, [detail |-> "Internal Server Error"])

Init ==
    /\ dbUsers = {}
    /\ dbTasks = {}
    /\ users = {}
    /\ tasks = {}
    /\ txn = "idle"
    /\ userSeq = 1
    /\ taskSeq = 1
    /\ pc = [t \in Threads |-> "idle"]
    /\ req = [t \in Threads |-> NoReq]
    /\ loc = [t \in Threads |-> NoLoc]
    /\ resp = NoResp
    /\ signedUp = {}

\* A uuid4 cannot be guessed: a client names a minted workspace code only
\* after a signup response has carried it.
Issued(workspace_code) ==
    \/ workspace_code \notin {uuid4(n) : n \in 1 .. (MaxUserSeq + 1)}
    \/ \E s \in signedUp : s.workspace_code = workspace_code

\* ----------------------------------------------------------------- signup
\* lines 52-58: the existence pre-check.
Signup(t, user) ==
    /\ pc[t] = "idle"
    /\ user.workspace_code = NoCode \/ Issued(user.workspace_code)
    /\ UNCHANGED <<dbUsers, dbTasks, users, tasks, userSeq, taskSeq, signedUp>>
    /\ IF txn = "aborted"
         THEN /\ ServerError(t, "signup", user)
              /\ UNCHANGED txn
         ELSE /\ txn' = "open"
              /\ IF \E x \in users : x.username = user.username \/ x.email = user.email
                   THEN Respond(t, "signup", user, 400,
                                [detail |-> "Username or email already exists"])
                   ELSE /\ userSeq + Cardinality({s \in Threads :
                                         pc[s] = "signup_insert"}) <= MaxUserSeq
                        /\ pc' = [pc EXCEPT ![t] = "signup_insert"]
                        /\ req' = [req EXCEPT ![t] = user]
                        /\ resp' = NoResp
                        /\ UNCHANGED loc

\* The INSERT of signup as an upsert (ON CONFLICT DO UPDATE): the new row
\* takes the place of the rows it conflicts with.
SignupInsert_Upsert(t) ==
    /\ pc[t] = "signup_insert"
    /\ UNCHANGED <<dbUsers, dbTasks, tasks, taskSeq, signedUp>>
    /\ \E salt \in Salts, passcode \in Passcodes :
         LET user == req[t]
             hashed_pw == hashpw(user.password, salt)
             workspace_code == IF user.workspace_code = NoCode
                                 THEN uuid4(userSeq) ELSE user.workspace_code
             row == [id |-> userSeq, username |-> user.username,
                     password_hash |-> hashed_pw, email |-> user.email,
                     workspace_code |-> workspace_code, passcode |-> passcode,
                     role |-> user.role]
         IN  IF txn = "aborted"
               THEN /\ ServerError(t, "signup", user)
                    /\ UNCHANGED <<users, txn, userSeq>>
               ELSE /\ userSeq' = userSeq + 1
                    /\ txn' = "open"
                    /\ users' = {x \in users : /\ x.username # row.username
                                               /\ x.email # row.email}
                                  \cup {row}
                    /\ loc' = [loc EXCEPT ![t] =
                                 [user_id |-> userSeq,
                                  workspace_code |-> workspace_code,
                                  passcode |-> passcode]]
                    /\ pc' = [pc EXCEPT ![t] = "signup_commit"]
                    /\ resp' = NoResp
                    /\ UNCHANGED req

\* lines 60-77: hash, mint workspace code and passcode, INSERT ... RETURNING id.
SignupInsert(t) ==
    /\ pc[t] = "signup_insert"
    /\ UNCHANGED <<dbUsers, dbTasks, tasks, taskSeq, signedUp>>
    /\ \E salt \in Salts, passcode \in Passcodes :
         LET user == req[t]
             hashed_pw == hashpw(user.password, salt)
             workspace_code == IF user.workspace_code = NoCode
                                 THEN uuid4(userSeq) ELSE user.workspace_code
             row == [id |-> userSeq, username |-> user.username,
                     password_hash |-> hashed_pw, email |-> user.email,
                     workspace_code |-> workspace_code, passcode |-> passcode,
                     role |-> user.role]
         IN  IF txn = "aborted"
               THEN /\ ServerError(t, "signup", user)
                    /\ UNCHANGED <<users, txn, userSeq>>
               ELSE /\ userSeq' = userSeq + 1
                    /\ IF UniqueViolation(users, row)
                         THEN /\ txn' = "aborted"
                              /\ ServerError(t, "signup", user)
                              /\ UNCHANGED users
                         ELSE /\ txn' = "open"
                              /\ users' = users \cup {row}
                              /\ loc' = [loc EXCEPT ![t] =
                                           [user_id |-> userSeq,
                                            workspace_code |-> workspace_code,
                                            passcode |-> passcode]]
                              /\ pc' = [pc EXCEPT ![t] = "signup_commit"]
                              /\ resp' = NoResp
                              /\ UNCHANGED req

\* lines 78-81: conn.commit() and the success response.
SignupCommit(t) ==
    /\ pc[t] = "signup_commit"
    /\ Commit
    /\ Respond(t, "signup", req[t], 200,
               [message |-> "User created successfully",
                user_id |-> loc[t].user_id,
                workspace_code |-> loc[t].workspace_code,
                passcode |-> loc[t].passcode])
    /\ signedUp' = signedUp \cup
                     {[username |-> req[t].username, password |-> req[t].password,
                       role |-> req[t].role, user_id |-> loc[t].user_id,
                       workspace_code |-> loc[t].workspace_code,
                       passcode |-> loc[t].passcode]}
    /\ UNCHANGED <<userSeq, taskSeq>>

\* ------------------------------------------------------------------ login
\* lines 86-101.
Login(t, credentials) ==
    /\ pc[t] = "idle"
    /\ UNCHANGED <<dbUsers, dbTasks, users, tasks, userSeq, taskSeq, signedUp>>
    /\ IF txn = "aborted"
         THEN /\ ServerError(t, "login", credentials)
              /\ UNCHANGED txn
         ELSE /\ txn' = "open"
              /\ LET rows == {x \in users : x.username = credentials.username}
                 IN  IF rows = {}
                       THEN Respond(t, "login", credentials, 401,
                                    [detail |-> "User not found"])
                       ELSE \E row \in rows :
                              IF ~checkpw(credentials.password, row.password_hash)
                                THEN Respond(t, "login", credentials, 401,
                                             [detail |-> "Incorrect password"])
                                ELSE Respond(t, "login", credentials, 200,
                                             [user_id |-> row.id,
                                              workspace_code |-> row.workspace_code,
                                              role |-> row.role,
                                              passcode |-> row.passcode])

\* --------------------------------------------------------------- add_task
\* lines 107-114: INSERT INTO tasks; id, completed, created_at and updated_at
\* take the defaults of the table.
AddTaskUpTo(t, task, maxSeq) ==
    /\ pc[t] = "idle"
    /\ Issued(task.workspace_code)
    /\ UNCHANGED <<dbUsers, dbTasks, users, userSeq, signedUp>>
    /\ IF txn = "aborted"
         THEN /\ ServerError(t, "add_task", task)
              /\ UNCHANGED <<tasks, txn, taskSeq>>
         ELSE /\ taskSeq <= maxSeq
              /\ txn' = "open"
              /\ taskSeq' = taskSeq + 1
              /\ tasks' = tasks \cup
                   {[id |-> taskSeq, workspace_code |-> task.workspace_code,
                     task_name |-> task.task_name,
                     assigned_by |-> task.assigned_by,
                     assigned_to |-> task.assigned_to,
                     due_date |-> task.due_date, completed |-> FALSE,
                     created_at |-> "insert", updated_at |-> "insert"]}
              /\ pc' = [pc EXCEPT ![t] = "add_task_commit"]
              /\ req' = [req EXCEPT ![t] = task]
              /\ resp' = NoResp
              /\ UNCHANGED loc

AddTask(t, task) == AddTaskUpTo(t, task, MaxTaskSeq)

\* lines 115-117.
AddTaskCommit(t) ==
    /\ pc[t] = "add_task_commit"
    /\ Commit
    /\ Respond(t, "add_task", req[t], 200, [message |-> "Task added successfully"])
    /\ UNCHANGED <<userSeq, taskSeq, signedUp>>

\* -------------------------------------------------------------- get_tasks
\* datetime.isoformat() of a due date.
isoformat(d) == <<"2026-11-0", d, "T00:00:00">>

\* LEFT JOIN users u ON t.assigned_xx = u.id: the username, or NULL.
JoinUsername(table, id) ==
    IF \E u \in table : u.id = id
      THEN (CHOOSE u \in table : u.id = id).username
      ELSE None

\* ORDER BY t.due_date ASC: every arrangement of the rows with non-decreasing
\* due_date (rows of equal due_date come in any order).
OrderByDueDate(rows) ==
    {s \in [1 .. Cardinality(rows) -> rows] :
        /\ \A i, j \in DOMAIN s : i < j => s[i] # s[j] /\ s[i].due_date <= s[j].due_date}

\* lines 136-146: one dict per row.
TaskDict(row, table) ==
    [id |-> row.id, workspace_code |-> row.workspace_code,
     task_name |-> row.task_name,
     assigned_by |-> [id |-> row.assigned_by,
                      username |-> JoinUsername(table, row.assigned_by)],
     assigned_to |-> [id |-> row.assigned_to,
                      username |-> JoinUsername(table, row.assigned_to)],
     due_date |-> isoformat(row.due_date), completed |-> row.completed]

\* lines 124-147: the responses the query can produce for a workspace.
SelectTasks(taskTable, userTable, workspace_code) ==
    {[i \in DOMAIN rows |-> TaskDict(rows[i], userTable)] :
        rows \in OrderByDueDate({k \in taskTable :
                                   k.workspace_code = workspace_code})}

\* lines 122-147.
GetTasks(t, workspace_code) ==
    /\ pc[t] = "idle"
    /\ UNCHANGED <<dbUsers, dbTasks, users, tasks, userSeq, taskSeq, signedUp>>
    /\ IF txn = "aborted"
         THEN /\ ServerError(t, "get_tasks", [workspace_code |-> workspace_code])
              /\ UNCHANGED txn
         ELSE /\ txn' = "open"
              /\ \E result \in SelectTasks(tasks, users, workspace_code) :
                   Respond(t, "get_tasks", [workspace_code |-> workspace_code],
                           200, [array |-> result])

\* ---------------------------------------------------------- complete_task
\* An UPDATE that flips the flag instead of setting it.
UpdateCompleted_Toggle(table, task_id) ==
    {IF k.id = task_id
       THEN [k EXCEPT !.completed = ~ k.completed, !.updated_at = "update"]
       ELSE k : k \in table}

\* UPDATE tasks SET completed=TRUE, updated_at=CURRENT_TIMESTAMP WHERE id=%s
\* (a timestamp is kept as the statement whose CURRENT_TIMESTAMP it holds).
UpdateCompleted(table, task_id) ==
    {IF k.id = task_id
       THEN [k EXCEPT !.completed = TRUE, !.updated_at = "update"]
       ELSE k : k \in table}

\* cursor.rowcount after the UPDATE: the number of rows it matched (the
\* handler never reads it).
RowCount(table, task_id) == Cardinality({k \in table : k.id = task_id})

\* complete_task with an UPDATE that has lost its WHERE clause.
CompleteTask_NoWhere(t, task_id) ==
    /\ pc[t] = "idle"
    /\ UNCHANGED <<dbUsers, dbTasks, users, userSeq, taskSeq, signedUp>>
    /\ IF txn = "aborted"
         THEN /\ ServerError(t, "complete_task", [task_id |-> task_id])
              /\ UNCHANGED <<tasks, txn>>
         ELSE /\ txn' = "open"
              /\ tasks' = {[k EXCEPT !.completed = TRUE, !.updated_at = "update"] :
                            k \in tasks}
              /\ pc' = [pc EXCEPT ![t] = "complete_task_commit"]
              /\ req' = [req EXCEPT ![t] = [task_id |-> task_id]]
              /\ loc' = [loc EXCEPT ![t] = [rowcount |-> RowCount(tasks, task_id)]]
              /\ resp' = NoResp

\* lines 153-157.
CompleteTask(t, task_id) ==
    /\ pc[t] = "idle"
    /\ UNCHANGED <<dbUsers, dbTasks, users, userSeq, taskSeq, signedUp>>
    /\ IF txn = "aborted"
         THEN /\ ServerError(t, "complete_task", [task_id |-> task_id])
              /\ UNCHANGED <<tasks, txn>>
         ELSE /\ txn' = "open"
              /\ tasks' = UpdateCompleted(tasks, task_id)
              /\ pc' = [pc EXCEPT ![t] = "complete_task_commit"]
              /\ req' = [req EXCEPT ![t] = [task_id |-> task_id]]
              /\ loc' = [loc EXCEPT ![t] = [rowcount |-> RowCount(tasks, task_id)]]
              /\ resp' = NoResp

\* lines 158-160.
CompleteTaskCommit(t) ==
    /\ pc[t] = "complete_task_commit"
    /\ Commit
    /\ Respond(t, "complete_task", req[t], 200, [message |-> "Task marked complete"])
    /\ UNCHANGED <<userSeq, taskSeq, signedUp>>

\* ----------------------------------------------------------- health_check
\* health_check without its try/except: the exception of the probe escapes.
HealthCheck_NoCatch(t) ==
    /\ pc[t] = "idle"
    /\ UNCHANGED <<dbUsers, dbTasks, users, tasks, userSeq, taskSeq, signedUp>>
    /\ IF txn = "aborted"
         THEN /\ ServerError(t, "health", NoReq)
              /\ UNCHANGED txn
         ELSE /\ txn' = "open"
              /\ Respond(t, "health", NoReq, 200,
                         [status |-> "ok", message |-> "API and Database are healthy"])

\* lines 165-173: the exception of the probe is caught and reported.
HealthCheck(t) ==
    /\ pc[t] = "idle"
    /\ UNCHANGED <<dbUsers, dbTasks, users, tasks, userSeq, taskSeq, signedUp>>
    /\ IF txn = "aborted"
         THEN /\ Respond(t, "health", NoReq, 200,
                         [status |-> "error", message |-> "InFailedSqlTransaction"])
              /\ UNCHANGED txn
         ELSE /\ txn' = "open"
              /\ Respond(t, "health", NoReq, 200,
                         [status |-> "ok", message |-> "API and Database are healthy"])

\* ------------------------------------------------------------------- spec
Next ==
    \E t \in Threads :
        \/ \E user \in SignupModel : Signup(t, user)
        \/ SignupInsert(t)
        \/ SignupCommit(t)
        \/ \E credentials \in LoginModel : Login(t, credentials)
        \/ \E task \in TaskModel : AddTask(t, task)
        \/ AddTaskCommit(t)
        \/ \E workspace_code \in WorkspaceCodes : GetTasks(t, workspace_code)
        \/ \E task_id \in TaskIds : CompleteTask(t, task_id)
        \/ CompleteTaskCommit(t)
        \/ HealthCheck(t)

Spec == Init /\ [][Next]_vars

\* ------------------------------------------------------------- task board
\* The same server with room for several tasks: one signup request (sent
\* twice at once it still aborts the connection) and the task handlers.
BoardSignups ==
    {user \in SignupModel : user.username = "alice" /\ user.email = "a@x.org"}

BoardTaskIds == 1 .. MaxBoardSeq

BoardNext ==
    \E t \in Threads :
        \/ \E user \in BoardSignups : Signup(t, user)
        \/ SignupInsert(t)
        \/ SignupCommit(t)
        \/ \E task \in TaskModel : AddTaskUpTo(t, task, MaxBoardSeq)
        \/ AddTaskCommit(t)
        \/ \E workspace_code \in WorkspaceCodes : GetTasks(t, workspace_code)
        \/ \E task_id \in BoardTaskIds : CompleteTask(t, task_id)
        \/ CompleteTaskCommit(t)

BoardSpec == Init /\ [][BoardNext]_vars

\* ================================================================= claims
\* The error kinds of the contract, by the status code that carries them.
Conflict(r) ==
    r.status = 400 /\ r.body = [detail |-> "Username or email already exists"]

NotFound(r) == r.status = 404

Unauthorized(r) == r.status = 401

Succeeded(r) == r.status = 200

\* A step that answers a request of kind op whose handler stood at label l.
Answers(op, l) == resp'.op = op /\ pc[resp'.thread] = l

SameIdentity(x, user) == x.username = user.username \/ x.email = user.email

\* C1: no two stored users share a username and no two share an email, in
\* the committed table and in the table as the open transaction sees it,
\* also when two signups pass the pre-check before either inserts.
C1_UniqueUsers ==
    \A table \in {users, dbUsers} :
        \A x, y \in table :
            x # y => x.username # y.username /\ x.email # y.email /\ x.id # y.id

\* Two signups passed the pre-check, one is stored and the INSERT of the
\* other one was rejected by the storage.
C1_Witness ==
    /\ resp.op = "signup"
    /\ resp.status = 500
    /\ txn = "aborted"
    /\ \E x \in users : SameIdentity(x, resp.req)

\* C2: a signup that names the username or the email of a stored user fails
\* with Conflict and leaves the users as they were.
C2_DuplicateIsConflict ==
    [][(/\ Answers("signup", "idle")
        /\ \E x \in dbUsers : SameIdentity(x, resp'.req))
       => (Conflict(resp') /\ users' = users /\ dbUsers' = dbUsers)]_vars

\* C3: of two concurrent signups of one username or email that both passed the
\* pre-check, the one whose INSERT finds the other's row is answered with the
\* Conflict error of the pre-check.
C3_RaceLoserIsConflict ==
    [][(/\ Answers("signup", "signup_insert")
        /\ \E x \in users : SameIdentity(x, resp'.req))
       => Conflict(resp')]_vars

\* C4: complete_task on an id that no task has fails with NotFound and
\* changes no task.
C4_UnknownTaskIsNotFound ==
    [][/\ (/\ Answers("complete_task", "complete_task_commit")
           /\ loc[resp'.thread].rowcount = 0)
          => NotFound(resp')
       /\ \A t \in Threads :
            (/\ pc[t] = "idle"
             /\ pc'[t] = "complete_task_commit"
             /\ ~ \E k \in tasks : k.id = req'[t].task_id)
            => tasks' = tasks]_vars

\* C5: login with a username no user has fails with NotFound, and with a
\* stored username and another password than the stored one with
\* Unauthorized.
C5_LoginFailures ==
    resp.op = "login" =>
        /\ (~ \E x \in users : x.username = resp.req.username) => NotFound(resp)
        /\ (\E x \in users : /\ x.username = resp.req.username
                             /\ ~ checkpw(resp.req.password, x.password_hash))
             => Unauthorized(resp)

\* C6: for every user a successful signup created, login with that username
\* succeeds exactly with the password of the signup, and returns the user_id,
\* workspace_code and passcode the signup returned and the role it stored.
C6_LoginAfterSignup ==
    resp.op = "login" =>
        \A s \in signedUp :
            s.username = resp.req.username =>
                /\ Succeeded(resp) <=> resp.req.password = s.password
                /\ Succeeded(resp) =>
                     resp.body = [user_id |-> s.user_id,
                                  workspace_code |-> s.workspace_code,
                                  role |-> s.role, passcode |-> s.passcode]

\* C7: a signup whose username and email no stored user has succeeds,
\* whatever happened before, and its user_id is the id of no user stored
\* before.
C7_FreshSignupSucceeds ==
    [][/\ (/\ resp'.op = "signup"
           /\ ~ Succeeded(resp'))
          => \E x \in users \cup dbUsers : SameIdentity(x, resp'.req)
       /\ (/\ resp'.op = "signup"
           /\ Succeeded(resp'))
          => \A x \in dbUsers : x.username # resp'.req.username
                                  => x.id # resp'.body.user_id]_vars

C9_CompletedIsListed ==
    [][/\ (/\ Answers("complete_task", "complete_task_commit")
           /\ Succeeded(resp')
           /\ loc[resp'.thread].rowcount > 0)
          => \E k \in tasks' :
                /\ k.id = resp'.req.task_id
                /\ \A result \in SelectTasks(tasks', users', k.workspace_code) :
                      \E i \in DOMAIN result :
                         result[i].id = k.id /\ result[i].completed
       /\ \A k \in tasks' :
             k.updated_at = "insert" =>
                \A result \in SelectTasks(tasks', users', k.workspace_code) :
                   \E i \in DOMAIN result :
                      result[i].id = k.id /\ ~ result[i].completed]_vars

\* C10: complete_task on a task that is already completed is accepted without
\* error and leaves the completed flag of every task as it was.
C10_CompleteTwice ==
    [][/\ (/\ resp'.op = "complete_task"
           /\ \E k \in dbTasks : k.id = resp'.req.task_id /\ k.completed)
          => Succeeded(resp')
       /\ \A t \in Threads :
            (/\ pc[t] = "idle"
             /\ pc'[t] = "complete_task_commit"
             /\ \E k \in tasks : k.id = req'[t].task_id /\ k.completed)
            => {<<k.id, k.completed>> : k \in tasks'}
                 = {<<k.id, k.completed>> : k \in tasks}]_vars

\* C15: the health check never fails: it answers 200 with status "ok" when
\* the probe query runs and with status "error" and a message when the probe
\* raises, and it leaves every user and every task as it was.
C15_HealthNeverFails ==
    [][resp'.op = "health" =>
         /\ Succeeded(resp')
         /\ resp'.body.status \in {"ok", "error"}
         /\ (resp'.body.status = "ok") <=> (txn # "aborted")
         /\ resp'.body.status = "error" => resp'.body.message # ""
         /\ users' = users /\ dbUsers' = dbUsers
         /\ tasks' = tasks /\ dbTasks' = dbTasks]_vars

\* The probe has failed on the aborted connection and was reported.
C15_Witness ==
    /\ resp.op = "health"
    /\ resp.body.status = "error"
    /\ txn = "aborted"

\* C16: each API call is one transaction of its own: a request that ends
\* while no other request is in flight leaves the shared connection with no
\* open and no aborted transaction, and the commit issued by one request
\* makes durable no user row inserted by a different in-flight request.
C16_OwnTransaction ==
    [][\A t \in Threads :
         resp'.thread = t =>
           /\ (\A s \in Threads \ {t} : pc[s] = "idle") => txn' = "idle"
           /\ \A x \in dbUsers' \ dbUsers :
                pc[t] = "signup_commit" /\ x.id = loc[t].user_id]_vars

\* C13: a signup that names the workspace_code of a stored user succeeds only
\* if the request carries the passcode of that workspace, and without the
\* matching passcode its INSERT adds no user.
C13_JoinNeedsPasscode ==
    [][/\ (resp'.op = "signup" /\ Succeeded(resp')) =>
            \A x \in dbUsers :
               (x.workspace_code = resp'.req.workspace_code
                  /\ x.id # resp'.body.user_id) =>
                 /\ "passcode" \in DOMAIN resp'.req
                 /\ resp'.req.passcode = x.passcode
       /\ \A t \in Threads :
            (/\ pc[t] = "signup_insert"
             /\ pc'[t] # "signup_insert"
             /\ \E x \in dbUsers :
                  /\ x.workspace_code = req[t].workspace_code
                  /\ ~ (/\ "passcode" \in DOMAIN req[t]
                        /\ req[t].passcode = x.passcode)) =>
              users' = users]_vars

\* C14: a successful signup has stored exactly one user with the returned id,
\* under the returned workspace_code and with the returned passcode; a
\* supplied workspace_code is the one stored and returned, and an omitted one
\* is replaced by a code that no other user and no task carries.
C14_SignupBindsWorkspace ==
    [][(Answers("signup", "signup_commit") /\ Succeeded(resp')) =>
         LET stored == {x \in users' : x.id = resp'.body.user_id}
             others == {x \in users \cup dbUsers : x.id # resp'.body.user_id}
         IN  /\ Cardinality(stored) = 1
             /\ \A x \in stored :
                  /\ x.username = resp'.req.username
                  /\ x.workspace_code = resp'.body.workspace_code
                  /\ x.passcode = resp'.body.passcode
             /\ resp'.req.workspace_code # NoCode =>
                  resp'.body.workspace_code = resp'.req.workspace_code
             /\ resp'.req.workspace_code = NoCode =>
                  /\ \A x \in others :
                       x.workspace_code # resp'.body.workspace_code
                  /\ \A k \in tasks \cup dbTasks :
                       k.workspace_code # resp'.body.workspace_code]_vars

SameButCompletion(k, k2) ==
    [k2 EXCEPT !.completed = k.completed, !.updated_at = k.updated_at] = k

C11_ListExactly ==
    [][resp'.op = "get_tasks" =>
         /\ Succeeded(resp')
         /\ LET array == resp'.body.array
                 stored == {k \in tasks :
                              k.workspace_code = resp'.req.workspace_code}
            IN  /\ Cardinality(DOMAIN array) = Cardinality(stored)
                /\ {array[i].id : i \in DOMAIN array} = {k.id : k \in stored}
                /\ \A i, j \in DOMAIN array :
                     i < j => array[i].due_date[2] <= array[j].due_date[2]]_vars

\* C12: the INSERT of create_task adds exactly one task, not completed and
\* with an id no task had before, and a successful create_task returns the
\* id of a task that is stored with the request's fields.
C12_CreateTaskReturnsId ==
    [][/\ \A t \in Threads :
            (pc[t] = "idle" /\ pc'[t] = "add_task_commit") =>
              \E k \in tasks' :
                 /\ tasks' = tasks \cup {k}
                 /\ ~ k.completed
                 /\ \A j \in tasks \cup dbTasks : j.id # k.id
       /\ (resp'.op = "add_task" /\ Succeeded(resp')) =>
            /\ "task_id" \in DOMAIN resp'.body
            /\ \E k \in tasks' :
                 /\ k.id = resp'.body.task_id
                 /\ k.task_name = resp'.req.task_name
                 /\ k.workspace_code = resp'.req.workspace_code]_vars

\* C17: create_task succeeds whether or not assigned_by and assigned_to are
\* ids of stored users, and list_tasks succeeds and returns every task of the
\* workspace, with username null for a reference that matches no user.
C17_DanglingReferences ==
    [][/\ resp'.op = "add_task" => Succeeded(resp')
       /\ resp'.op = "get_tasks" =>
            /\ Succeeded(resp')
            /\ \A k \in tasks :
                 k.workspace_code = resp'.req.workspace_code =>
                   \E i \in DOMAIN resp'.body.array :
                      LET entry == resp'.body.array[i]
                      IN  /\ entry.id = k.id
                          /\ (\A u \in users : u.id # k.assigned_by) =>
                               entry.assigned_by.username = None
                          /\ (\A u \in users : u.id # k.assigned_to) =>
                               entry.assigned_to.username = None]_vars
====
